---- MODULE Spec2Model ----
(***************************************************************************)
(* AMS connection management: the manager task of                          *)
(* ams/src/connection_manager.rs, the per-peer session task of             *)
(* ams-core/src/connection.rs and the host facade of ams/src/lib.rs.       *)
(*                                                                         *)
(* Every task is modelled by its position (the await it is suspended at)   *)
(* and the data it owns.  A step of the model runs one task from one       *)
(* await to the next.                                                      *)
(***************************************************************************)
EXTENDS Integers, Sequences, FiniteSets, TLC

\* ------------------------------------------------------------------ bounds
\* Inputs fed to the manager over one run.  A connection input (a connect or
\* disconnect call of the host, an inbound connection) weighs Cost.conn, a
\* send_message call weighs Cost.send and a frame sent by a remote peer
\* Cost.frame: a run holds at most MaxInputs \div Cost.conn sessions, or
\* fewer sessions and more messages.
MaxInputs == 6
\* Disconnect notifications the sessions repeat over one run: every session
\* can send its first, and MaxNotify more are sent in all.
MaxNotify == 1
\* Capacity of the manager's command channel (mpsc::channel(100), scaled).
MgrChanCap == 2
\* Capacity of a session's command channel (mpsc::channel(32), scaled).
SessChanCap == 2

\* Peer addresses (SocketAddr) and message payloads (Vec<u8>).
Addrs == {"a1", "a2"}
Data == {"p1", "p2"}
\* Payloads of the messages the remote peers send, and a frame that is not
\* the encoding of a Message.
RemoteData == {"q1", "q2"}
Junk == <<"junk">>

Host == 0
Cost == [conn |-> 3, send |-> 1, frame |-> 1]
SessionIds == 1..(MaxInputs \div Cost.conn)

Last(q) == q[Len(q)]
Range(f) == {f[x] : x \in DOMAIN f}

VARIABLES
    mgr,          \* position of the manager task
    ctx,          \* locals of the manager handler that is suspended
    token,        \* the manager's CancellationToken is cancelled
    rx,           \* the manager's command channel (FIFO)
    connections,  \* the peer table: HashMap<SocketAddr, Connection>
    response,     \* the oneshot of the pending ConnectionRequested
    events,       \* everything sent on event_tx, in order
    sess,         \* the session tasks ever spawned, by spawn order
    inputs,       \* weight of the inputs fed to the manager so far
    asked,        \* history: per session, the disconnect calls the host made
                  \* for its peer while it was the peer's table entry
    notes,        \* repeated Disconnect notifications sent so far
    ctl           \* a controller, the last call made on it and what came of it

vars == <<mgr, ctx, token, rx, connections, response, events, sess, inputs, asked, notes, ctl>>

\* ---------------------------------------------------------------- commands
\* enum Command of ams/src/lib.rs; `from` records the sender of the command
\* (Host or the id of the session task), which the code does not carry.
Connect(a) ==
    [type |-> "Connect", addr |-> a, message_id |-> 0, data |-> "", from |-> Host]

Disconnect(a, who) ==
    [type |-> "Disconnect", addr |-> a, message_id |-> 0, data |-> "", from |-> who]

SendMessage(id, a, d) ==
    [type |-> "SendMessage", addr |-> a, message_id |-> id, data |-> d, from |-> Host]

\* enum Event of ams/src/lib.rs
Event(t, a, id) == [type |-> t, peer |-> a, message_id |-> id]
ConnectionRequested(a) == Event("ConnectionRequested", a, 0)
ConnectionEstablished(a) == Event("ConnectionEstablished", a, 0)
ConnectionRejected(a) == Event("ConnectionRejected", a, 0)
ConnectionDisconnected(a) == Event("ConnectionDisconnected", a, 0)
MessageSent(a, id) == Event("MessageSent", a, id)
MessageFailed(a, id) == Event("MessageFailed", a, id)
MessageReceived(a, id, p) ==
    [type |-> "MessageReceived", peer |-> a, message_id |-> id, payload |-> p]

\* The transmit layer's Cmd::SendMessage(Message {id, payload, sender}).
MyAddr == "me"
TransmitCmd(id, d) == [id |-> id, payload |-> d, sender |-> MyAddr]

NoCtx == [peer |-> "", sids |-> {}, cmd |-> TransmitCmd(0, "")]

\* ------------------------------------------------------------ the peer table
\* HashMap::insert: the entry for `a` is set, whatever was there is returned
\* to the caller (who drops it).
InsertSkipped(conns, a, s) == conns

Insert(conns, a, s) ==
    [x \in (DOMAIN conns) \cup {a} |-> IF x = a THEN s ELSE conns[x]]

\* HashMap::remove
RemoveAll(conns, a) == <<>>
RemoveNone(conns, a) == conns

Remove(conns, a) == [x \in (DOMAIN conns) \ {a} |-> conns[x]]

InTable(s) == \E a \in DOMAIN connections : connections[a] = s

\* ---------------------------------------------------------------- sessions
\* Connection::spawn: a fresh task with an empty command channel, an
\* untripped token and the connected stream.
NewSession(a, how) ==
    [peer |-> a, pc |-> "select", cancelled |-> FALSE, rx |-> <<>>,
     sock |-> "open", wire |-> <<>>, inbox |-> <<>>, read |-> <<>>, told |-> FALSE,
     origin |-> how]

Spawned == DOMAIN sess
Running(s) == sess[s].pc # "done"

\* self.handle.await of Connection::disconnect: ready once the task returned.
JoinSkipped(s) == TRUE

JoinReady(s) == sess[s].pc = "done"

\* The manager task has returned: its receiver and event_tx are dropped.
ManagerDone == mgr = "done"
\* mpsc::Sender::send on the manager's channel can complete.
MgrChanReady == ManagerDone \/ Len(rx) < MgrChanCap
\* What the channel holds after a send (nothing is queued once the
\* receiver is gone: send returns Err and the caller ignores it).
MgrChanSend(cmd) == IF ManagerDone THEN rx ELSE Append(rx, cmd)

\* -------------------------------------------------------------- controller
\* impl Controller for (L1,), (L1, L2), (L1, L2, L3).  A layer is given by
\* its Command type and by what its methods return: handle_cmd yields bytes
\* or None, handle_incoming_frame reports a command to the manager or None.
\* Every method call is logged, and every buffer a layer is handed carries
\* the mark of that layer from then on.
MaxLayers == 3
CmdTypes == {"T1", "T2", "T3"}
LayerKinds == [type : CmdTypes, yields : BOOLEAN, reports : BOOLEAN]
Pipelines == UNION {[1..n -> LayerKinds] : n \in 1..MaxLayers}

\* cmd.is::<L::Command>()
OwnsAny(l, cmd) == TRUE

Owns(l, cmd) == cmd = l.type

\* Layer::handle_cmd of the layer at position i: Some(bytes) or None (an
\* Option is a sequence of length 0 or 1).
LayerHandleCmd(l, i) == IF l.yields THEN << << <<"cmd", i>> >> >> ELSE <<>>

\* Layer::handle_outgoing_frame of the layer at position i.
LayerHandleOutgoingFrame(i, bytes) == Append(bytes, <<"out", i>>)

\* Layer::handle_incoming_frame of the layer at position i: the frame as the
\* layer leaves it, and the command it returns (if any) with the frame it
\* was handed.
LayerHandleIncomingFrame(l, i, frame) ==
    [frame |-> Append(frame, <<"in", i>>),
     cmd |-> IF l.reports THEN <<[layer |-> i, saw |-> frame]>> ELSE <<>>]

Called(m, i) == <<m, i>>

\* The trailing `None` of process_cmd: no layer was called.
Unowned == [bytes |-> <<>>, calls |-> <<>>]

\* (L1,)::process_cmd
ProcessCmd1(L, cmd) ==
    IF Owns(L[1], cmd)
      THEN [bytes |-> LayerHandleCmd(L[1], 1),
            calls |-> <<Called("handle_cmd", 1)>>]
    ELSE Unowned

\* (L1, L2)::process_cmd
ProcessCmd2LastFirst(L, cmd) ==
    IF Owns(L[2], cmd)
      THEN LET bytes == LayerHandleCmd(L[2], 2) IN
           IF bytes # <<>>
             THEN [bytes |-> <<LayerHandleOutgoingFrame(1, bytes[1])>>,
                   calls |-> <<Called("handle_cmd", 2),
                               Called("handle_outgoing_frame", 1)>>]
             ELSE [bytes |-> bytes, calls |-> <<Called("handle_cmd", 2)>>]
    ELSE IF Owns(L[1], cmd)
      THEN [bytes |-> LayerHandleCmd(L[1], 1),
            calls |-> <<Called("handle_cmd", 1)>>]
    ELSE Unowned

ProcessCmd2(L, cmd) ==
    IF Owns(L[1], cmd)
      THEN [bytes |-> LayerHandleCmd(L[1], 1),
            calls |-> <<Called("handle_cmd", 1)>>]
    ELSE IF Owns(L[2], cmd)
      THEN LET bytes == LayerHandleCmd(L[2], 2) IN
           IF bytes # <<>>
             THEN [bytes |-> <<LayerHandleOutgoingFrame(1, bytes[1])>>,
                   calls |-> <<Called("handle_cmd", 2),
                               Called("handle_outgoing_frame", 1)>>]
             ELSE [bytes |-> bytes, calls |-> <<Called("handle_cmd", 2)>>]
    ELSE Unowned

\* (L1, L2, L3)::process_cmd
ProcessCmd3Swapped(L, cmd) ==
    IF Owns(L[1], cmd)
      THEN [bytes |-> LayerHandleCmd(L[1], 1),
            calls |-> <<Called("handle_cmd", 1)>>]
    ELSE IF Owns(L[2], cmd)
      THEN LET bytes == LayerHandleCmd(L[2], 2) IN
           IF bytes # <<>>
             THEN [bytes |-> <<LayerHandleOutgoingFrame(1, bytes[1])>>,
                   calls |-> <<Called("handle_cmd", 2),
                               Called("handle_outgoing_frame", 1)>>]
             ELSE [bytes |-> bytes, calls |-> <<Called("handle_cmd", 2)>>]
    ELSE IF Owns(L[3], cmd)
      THEN LET bytes == LayerHandleCmd(L[3], 3) IN
           IF bytes # <<>>
             THEN [bytes |-> <<LayerHandleOutgoingFrame(2,
                                 LayerHandleOutgoingFrame(1, bytes[1]))>>,
                   calls |-> <<Called("handle_cmd", 3),
                               Called("handle_outgoing_frame", 1),
                               Called("handle_outgoing_frame", 2)>>]
             ELSE [bytes |-> bytes, calls |-> <<Called("handle_cmd", 3)>>]
    ELSE Unowned

ProcessCmd3Unconditional(L, cmd) ==
    IF Owns(L[1], cmd)
      THEN [bytes |-> LayerHandleCmd(L[1], 1),
            calls |-> <<Called("handle_cmd", 1)>>]
    ELSE IF Owns(L[2], cmd)
      THEN LET bytes == LayerHandleCmd(L[2], 2) IN
           [bytes |-> <<LayerHandleOutgoingFrame(1,
                          IF bytes # <<>> THEN bytes[1] ELSE <<>>)>>,
            calls |-> <<Called("handle_cmd", 2),
                        Called("handle_outgoing_frame", 1)>>]
    ELSE IF Owns(L[3], cmd)
      THEN LET bytes == LayerHandleCmd(L[3], 3) IN
           [bytes |-> <<LayerHandleOutgoingFrame(1,
                          LayerHandleOutgoingFrame(2,
                            IF bytes # <<>> THEN bytes[1] ELSE <<>>))>>,
            calls |-> <<Called("handle_cmd", 3),
                        Called("handle_outgoing_frame", 2),
                        Called("handle_outgoing_frame", 1)>>]
    ELSE Unowned

ProcessCmd3(L, cmd) ==
    IF Owns(L[1], cmd)
      THEN [bytes |-> LayerHandleCmd(L[1], 1),
            calls |-> <<Called("handle_cmd", 1)>>]
    ELSE IF Owns(L[2], cmd)
      THEN LET bytes == LayerHandleCmd(L[2], 2) IN
           IF bytes # <<>>
             THEN [bytes |-> <<LayerHandleOutgoingFrame(1, bytes[1])>>,
                   calls |-> <<Called("handle_cmd", 2),
                               Called("handle_outgoing_frame", 1)>>]
             ELSE [bytes |-> bytes, calls |-> <<Called("handle_cmd", 2)>>]
    ELSE IF Owns(L[3], cmd)
      THEN LET bytes == LayerHandleCmd(L[3], 3) IN
           IF bytes # <<>>
             THEN [bytes |-> <<LayerHandleOutgoingFrame(1,
                                 LayerHandleOutgoingFrame(2, bytes[1]))>>,
                   calls |-> <<Called("handle_cmd", 3),
                               Called("handle_outgoing_frame", 2),
                               Called("handle_outgoing_frame", 1)>>]
             ELSE [bytes |-> bytes, calls |-> <<Called("handle_cmd", 3)>>]
    ELSE Unowned

ProcessCmd(L, cmd) ==
    CASE Len(L) = 1 -> ProcessCmd1(L, cmd)
      [] Len(L) = 2 -> ProcessCmd2(L, cmd)
      [] Len(L) = 3 -> ProcessCmd3(L, cmd)

\* (L1,)::process_incoming_frame
ProcessIncomingFrame1(L, frame) ==
    LET r1 == LayerHandleIncomingFrame(L[1], 1, frame)
    IN  [frame |-> r1.frame,
         cmds |-> r1.cmd,
         calls |-> <<Called("handle_incoming_frame", 1)>>]

\* (L1, L2)::process_incoming_frame
ProcessIncomingFrame2(L, frame) ==
    LET r2 == LayerHandleIncomingFrame(L[2], 2, frame)
        r1 == LayerHandleIncomingFrame(L[1], 1, r2.frame)
    IN  [frame |-> r1.frame,
         cmds |-> r2.cmd \o r1.cmd,
         calls |-> <<Called("handle_incoming_frame", 2),
                     Called("handle_incoming_frame", 1)>>]

\* (L1, L2, L3)::process_incoming_frame
ProcessIncomingFrame3Outermost(L, frame) ==
    LET r1 == LayerHandleIncomingFrame(L[1], 1, frame)
        r2 == LayerHandleIncomingFrame(L[2], 2, r1.frame)
        r3 == LayerHandleIncomingFrame(L[3], 3, r2.frame)
    IN  [frame |-> r3.frame,
         cmds |-> r1.cmd \o r2.cmd \o r3.cmd,
         calls |-> <<Called("handle_incoming_frame", 1),
                     Called("handle_incoming_frame", 2),
                     Called("handle_incoming_frame", 3)>>]

ProcessIncomingFrame3(L, frame) ==
    LET r3 == LayerHandleIncomingFrame(L[3], 3, frame)
        r2 == LayerHandleIncomingFrame(L[2], 2, r3.frame)
        r1 == LayerHandleIncomingFrame(L[1], 1, r2.frame)
    IN  [frame |-> r1.frame,
         cmds |-> r3.cmd \o r2.cmd \o r1.cmd,
         calls |-> <<Called("handle_incoming_frame", 3),
                     Called("handle_incoming_frame", 2),
                     Called("handle_incoming_frame", 1)>>]

ProcessIncomingFrame(L, frame) ==
    CASE Len(L) = 1 -> ProcessIncomingFrame1(L, frame)
      [] Len(L) = 2 -> ProcessIncomingFrame2(L, frame)
      [] Len(L) = 3 -> ProcessIncomingFrame3(L, frame)

\* (L1,)::initialize, (L1, L2)::initialize, (L1, L2, L3)::initialize: the
\* layers in the order their `Li::initialize(stream).await` are evaluated.
Initialize1 == <<1>>
Initialize2 == <<1, 2>>
Initialize3Reversed == <<3, 2, 1>>

Initialize3 == <<1, 2, 3>>

Initialize(L) ==
    CASE Len(L) = 1 -> Initialize1
      [] Len(L) = 2 -> Initialize2
      [] Len(L) = 3 -> Initialize3

\* A controller that is not yet initialized and on which nothing has been
\* called.  `init` logs the start of each layer's initialization (with the
\* transport as the layer finds it) and its completion; `stream` is the
\* transport, which carries the mark of every layer initialized against it.
\* `yielded` are the frames the transport has decoded, `tin` those of them
\* framed.next() has not returned yet, `passed` those handed to
\* process_incoming_frame, and `fwd` the commands sent to the manager, each
\* with the position in `passed` of the frame it was produced for.
Fresh(L) ==
    [layers |-> L, op |-> "none", cmd |-> "", calls |-> <<>>, bytes |-> <<>>,
     written |-> <<>>, frame |-> <<>>, left |-> <<>>, cmds |-> <<>>, sent |-> <<>>,
     init |-> <<>>, stream |-> <<>>,
     yielded |-> <<>>, tin |-> <<>>, passed |-> <<>>, fwd |-> <<>>]

\* The controller before the next call: initialized as it is.
Idle(c) ==
    [Fresh(c.layers) EXCEPT !.init = c.init, !.stream = c.stream,
                            !.yielded = c.yielded, !.tin = c.tin,
                            !.passed = c.passed, !.fwd = c.fwd]

\* C::initialize(&mut framed).await has returned.
Initialized(c) == Len(c.init) = 2 * Len(c.layers)

NoCtl == Fresh(<<>>)

Init ==
    /\ mgr = "select"
    /\ ctx = NoCtx
    /\ token = FALSE
    /\ rx = <<>>
    /\ connections = <<>>
    /\ response = "none"
    /\ events = <<>>
    /\ sess = <<>>
    /\ inputs = 0
    /\ asked = <<>>
    /\ notes = 0
    /\ ctl = NoCtl

\* ------------------------------------------------------------------- host
\* Ams::connect / Ams::disconnect / Ams::send_message: one command is sent
\* on the manager's channel (the call awaits space).  `shutdown` consumes
\* the Ams, so no command follows it.
HostCommand(cmd) ==
    /\ ~token
    /\ Len(rx) < MgrChanCap
    /\ rx' = Append(rx, cmd)
    /\ UNCHANGED <<mgr, ctx, token, connections, response, events, sess, notes, ctl>>

HostConnect ==
    /\ inputs + Cost.conn <= MaxInputs
    /\ \E a \in Addrs : HostCommand(Connect(a))
    /\ inputs' = inputs + Cost.conn
    /\ UNCHANGED asked

HostDisconnect ==
    /\ inputs + Cost.conn <= MaxInputs
    /\ \E a \in Addrs :
         /\ HostCommand(Disconnect(a, Host))
         /\ asked' = [s \in DOMAIN asked |->
                        IF a \in DOMAIN connections /\ connections[a] = s
                          THEN asked[s] + 1 ELSE asked[s]]
    /\ inputs' = inputs + Cost.conn

\* send_message passes message_id 0 for every message.
HostSendMessage ==
    /\ inputs + Cost.send <= MaxInputs
    /\ \E a \in Addrs, d \in Data : HostCommand(SendMessage(0, a, d))
    /\ inputs' = inputs + Cost.send
    /\ UNCHANGED asked

\* Ams::shutdown -> ConnectionManager::shutdown: token.cancel(), then the
\* host awaits the manager's join handle.
HostShutdown ==
    /\ ~token
    /\ token' = TRUE
    /\ UNCHANGED <<mgr, ctx, rx, connections, response, events, sess, inputs, asked, notes, ctl>>

\* Ams::next_event yields the ConnectionRequested event: the host now owns
\* the reply sender.  next_event needs the Ams, which shutdown has consumed.
HostTakeRequest ==
    /\ ~token
    /\ response = "unread"
    /\ response' = "held"
    /\ UNCHANGED <<mgr, ctx, token, rx, connections, events, sess, inputs, asked, notes, ctl>>

\* The host answers (true / false) or drops the reply sender.
HostReply ==
    /\ response = "held"
    /\ response' \in {"true", "false", "dropped"}
    /\ UNCHANGED <<mgr, ctx, token, rx, connections, events, sess, inputs, asked, notes, ctl>>

\* ---------------------------------------------------------------- manager
\* event_tx.send: the receiver lives in the Ams, so the send succeeds for
\* as long as the manager task runs.
Emit(e) == events' = Append(events, e)

\* Connection::spawn, connections.insert, ConnectionEstablished: the three
\* statements of the accept and Connect branches, with no await between.
Establish(a, how) ==
    /\ sess' = Append(sess, NewSession(a, how))
    /\ asked' = Append(asked, 0)
    /\ connections' = Insert(connections, a, Len(sess) + 1)
    /\ Emit(ConnectionEstablished(a))

\* select! branch 1: the token is cancelled, the loop breaks and join_all
\* polls every Connection::disconnect, which cancels every session at once.
MgrCancelled ==
    /\ mgr = "select"
    /\ token
    /\ sess' = [s \in DOMAIN sess |->
                  IF InTable(s) THEN [sess[s] EXCEPT !.cancelled = TRUE] ELSE sess[s]]
    /\ ctx' = [NoCtx EXCEPT !.sids = Range(connections)]
    /\ connections' = <<>>
    /\ mgr' = "teardown"
    /\ UNCHANGED <<token, rx, response, events, inputs, asked, notes, ctl>>

\* join_all completes: the task returns, dropping rx and event_tx.
MgrTeardownJoined ==
    /\ mgr = "teardown"
    /\ \A s \in ctx.sids : JoinReady(s)
    /\ mgr' = "done"
    /\ ctx' = NoCtx
    /\ rx' = <<>>
    /\ UNCHANGED <<token, connections, response, events, sess, inputs, asked, notes, ctl>>

\* A remote peer can connect from `a`: no connection from `a` is still open.
CanAccept(a) ==
    /\ inputs + Cost.conn <= MaxInputs
    /\ \A s \in Spawned : sess[s].peer = a => sess[s].sock # "open"

\* select! branch 2, up to `tx.await`: ConnectionRequested is emitted with
\* the reply sender and the manager waits for the host's answer.
MgrAccept ==
    /\ mgr = "select"
    /\ \E a \in Addrs :
        /\ CanAccept(a)
        /\ Emit(ConnectionRequested(a))
        /\ ctx' = [NoCtx EXCEPT !.peer = a]
    /\ response' = "unread"
    /\ mgr' = "awaitReply"
    /\ inputs' = inputs + Cost.conn
    /\ UNCHANGED <<token, rx, connections, sess, asked, notes, ctl>>

\* select! branch 2, after `tx.await`: only Ok(true) spawns a session.
MgrRepliedUnlessFalse ==
    /\ mgr = "awaitReply"
    /\ response \in {"true", "false", "dropped"}
    /\ IF response # "false"
         THEN Establish(ctx.peer, "accept")
         ELSE UNCHANGED <<sess, connections, events, asked>>
    /\ response' = "none"
    /\ ctx' = NoCtx
    /\ mgr' = "select"
    /\ UNCHANGED <<token, rx, inputs, notes, ctl>>

MgrRepliedRejects ==
    /\ mgr = "awaitReply"
    /\ response \in {"true", "false", "dropped"}
    /\ IF response = "true"
         THEN Establish(ctx.peer, "accept")
         ELSE /\ Emit(ConnectionRejected(ctx.peer))
              /\ UNCHANGED <<sess, connections, asked>>
    /\ response' = "none"
    /\ ctx' = NoCtx
    /\ mgr' = "select"
    /\ UNCHANGED <<token, rx, inputs, notes, ctl>>

MgrReplied ==
    /\ mgr = "awaitReply"
    /\ response \in {"true", "false", "dropped"}
    /\ IF response = "true"
         THEN Establish(ctx.peer, "accept")
         ELSE UNCHANGED <<sess, connections, events, asked>>
    /\ response' = "none"
    /\ ctx' = NoCtx
    /\ mgr' = "select"
    /\ UNCHANGED <<token, rx, inputs, notes, ctl>>

\* select! branch 3: `Some(cmd) = rx.recv()`.
Received(t) ==
    /\ mgr = "select"
    /\ rx # <<>>
    /\ Head(rx).type = t
    /\ rx' = Tail(rx)

\* Command::Disconnect, up to `connection.disconnect().await`: the entry is
\* removed and its token cancelled; with no entry the event is sent at once.
MgrDisconnect ==
    /\ Received("Disconnect")
    /\ LET a == Head(rx).addr IN
         IF a \in DOMAIN connections
           THEN /\ connections' = Remove(connections, a)
                /\ sess' = [sess EXCEPT ![connections[a]].cancelled = TRUE]
                /\ ctx' = [NoCtx EXCEPT !.peer = a, !.sids = {connections[a]}]
                /\ mgr' = "joinDisc"
                /\ UNCHANGED events
           ELSE /\ Emit(ConnectionDisconnected(a))
                /\ UNCHANGED <<connections, sess, ctx, mgr>>
    /\ UNCHANGED <<token, response, inputs, asked, notes, ctl>>

\* Command::Disconnect, after the join: ConnectionDisconnected is emitted.
MgrDisconnectJoined ==
    /\ mgr = "joinDisc"
    /\ \A s \in ctx.sids : JoinReady(s)
    /\ Emit(ConnectionDisconnected(ctx.peer))
    /\ ctx' = NoCtx
    /\ mgr' = "select"
    /\ UNCHANGED <<token, rx, connections, response, sess, inputs, asked, notes, ctl>>

\* Command::Connect: TcpStream::connect succeeds or fails; a failure is
\* followed by no statement at all.
MgrConnect ==
    /\ Received("Connect")
    /\ \E ok \in BOOLEAN :
         IF ok
           THEN Establish(Head(rx).addr, "connect")
           ELSE UNCHANGED <<sess, connections, events, asked>>
    /\ UNCHANGED <<mgr, ctx, token, response, inputs, notes, ctl>>

\* Connection::send_command can complete: the session's channel has room,
\* or its receiver is gone (send returns Err, which is ignored).
SessChanReadyAlways(s) == TRUE

SessChanReady(s) == ~Running(s) \/ Len(sess[s].rx) < SessChanCap
SessChanSendLost(s, cmd) == sess

SessChanSend(s, cmd) ==
    IF Running(s) THEN [sess EXCEPT ![s].rx = Append(@, cmd)] ELSE sess

\* Command::SendMessage: forwarded to the session of `addr` if there is one
\* (MessageSent follows the hand-off), MessageFailed otherwise.
MgrSendMessageEventFirst ==
    /\ Received("SendMessage")
    /\ LET c == Head(rx)
           msg == TransmitCmd(c.message_id, c.data)
       IN  IF c.addr \in DOMAIN connections
             THEN LET s == connections[c.addr] IN
                  /\ Emit(MessageSent(c.addr, c.message_id))
                  /\ mgr' = "sendCmd"
                  /\ ctx' = [peer |-> c.addr, sids |-> {s}, cmd |-> msg]
                  /\ UNCHANGED sess
             ELSE /\ Emit(MessageFailed(c.addr, c.message_id))
                  /\ UNCHANGED <<mgr, ctx, sess>>
    /\ UNCHANGED <<token, connections, response, inputs, asked, notes, ctl>>

MgrSendMessage ==
    /\ Received("SendMessage")
    /\ LET c == Head(rx)
           msg == TransmitCmd(c.message_id, c.data)
       IN  IF c.addr \in DOMAIN connections
             THEN LET s == connections[c.addr] IN
                  IF SessChanReady(s)
                    THEN /\ sess' = SessChanSend(s, msg)
                         /\ Emit(MessageSent(c.addr, c.message_id))
                         /\ UNCHANGED <<mgr, ctx>>
                    ELSE /\ mgr' = "sendCmd"
                         /\ ctx' = [peer |-> c.addr, sids |-> {s}, cmd |-> msg]
                         /\ UNCHANGED <<sess, events>>
             ELSE /\ Emit(MessageFailed(c.addr, c.message_id))
                  /\ UNCHANGED <<mgr, ctx, sess>>
    /\ UNCHANGED <<token, connections, response, inputs, asked, notes, ctl>>

\* Command::SendMessage, once the session's channel has room.
MgrSendCompleted ==
    /\ mgr = "sendCmd"
    /\ \E s \in ctx.sids :
         /\ SessChanReady(s)
         /\ sess' = SessChanSend(s, ctx.cmd)
    /\ Emit(MessageSent(ctx.peer, ctx.cmd.id))
    /\ ctx' = NoCtx
    /\ mgr' = "select"
    /\ UNCHANGED <<token, rx, connections, response, inputs, asked, notes, ctl>>

\* ---------------------------------------------------------------- session
\* manager_tx.send(Command::Disconnect(id)).await: queued when the channel
\* has room, otherwise the task is suspended in the send.
Notify(s, after) ==
    /\ ~sess[s].told \/ notes < MaxNotify
    /\ notes' = IF sess[s].told THEN notes + 1 ELSE notes
    /\ IF MgrChanReady
         THEN /\ rx' = MgrChanSend(Disconnect(sess[s].peer, s))
              /\ sess' = [after EXCEPT ![s].told = TRUE]
         ELSE /\ rx' = rx
              /\ sess' = [after EXCEPT ![s].told = TRUE, ![s].pc = "sendMgr"]

\* select! branch 1: cancelled, the loop breaks, the task returns and the
\* transport is dropped.
SessCancelled(s) ==
    /\ sess[s].pc = "select"
    /\ sess[s].cancelled
    /\ sess' = [sess EXCEPT ![s].pc = "done", ![s].sock = "closed", ![s].rx = <<>>,
                             ![s].inbox = <<>>]
    /\ UNCHANGED <<mgr, ctx, token, rx, connections, response, events, inputs, asked, notes, ctl>>

\* Transmit::handle_cmd: the message as the bytes of one frame.
HandleCmd(msg) == <<msg.id, msg.payload, msg.sender>>

\* select! branch 2: a command is taken, process_cmd returns the bytes and
\* framed.send writes them; a failed write is reported to the manager.
SessCommandNewestFirst(s) ==
    /\ sess[s].pc = "select"
    /\ sess[s].rx # <<>>
    /\ sess' = [sess EXCEPT ![s].rx = SubSeq(@, 1, Len(@) - 1),
                             ![s].wire = Append(@, HandleCmd(Last(sess[s].rx)))]
    /\ UNCHANGED <<mgr, ctx, token, rx, connections, response, events, inputs, asked, notes, ctl>>

SessCommand(s) ==
    /\ sess[s].pc = "select"
    /\ sess[s].rx # <<>>
    /\ \E ok \in BOOLEAN :
         /\ ~ok => sess[s].sock = "down"
         /\ IF ok
              THEN /\ sess' = [sess EXCEPT ![s].rx = Tail(@),
                                           ![s].wire = Append(@, HandleCmd(Head(sess[s].rx)))]
                   /\ UNCHANGED <<rx, notes>>
              ELSE Notify(s, [sess EXCEPT ![s].rx = Tail(@)])
    /\ UNCHANGED <<mgr, ctx, token, connections, response, events, inputs, asked, ctl>>

\* postcard::from_bytes::<Message>: the message a frame encodes, if any.
FromBytes(frame) ==
    IF Len(frame) = 3
      THEN [ok |-> TRUE, msg |-> [id |-> frame[1], payload |-> frame[2], sender |-> frame[3]]]
      ELSE [ok |-> FALSE, msg |-> [id |-> 0, payload |-> "", sender |-> ""]]

\* Transmit::handle_incoming_frame: a frame that decodes is printed (what
\* follows is a TODO in the source); None is returned in every case.  An
\* Option is a sequence of length 0 or 1.
HandleIncomingFrame(frame) ==
    IF FromBytes(frame).ok THEN <<>> ELSE <<>>

\* select! branch 3, Some(Ok(frame)): process_incoming_frame runs the frame
\* through the one layer and every command it returns is sent to the
\* manager (there is none).
SessFrame(s) ==
    /\ sess[s].pc = "select"
    /\ sess[s].inbox # <<>>
    /\ HandleIncomingFrame(Head(sess[s].inbox)) = <<>>
    /\ sess' = [sess EXCEPT ![s].inbox = Tail(@),
                             ![s].read = Append(@, Head(sess[s].inbox))]
    /\ UNCHANGED <<mgr, ctx, token, rx, connections, response, events, inputs, asked, notes, ctl>>

SessIncomingLeaves(s) ==
    /\ sess[s].pc = "select"
    /\ sess[s].sock = "down"
    /\ sess[s].inbox = <<>>
    /\ sess' = [sess EXCEPT ![s].pc = "done", ![s].sock = "closed", ![s].rx = <<>>]
    /\ UNCHANGED <<mgr, ctx, token, rx, connections, response, events, inputs, asked, notes, ctl>>

\* select! branch 3, Some(Err(_)) | None: once the buffered frames are
\* read, framed.next() yields None or an error (and does so on every later
\* poll; a write may still go through after a read error): Disconnect is sent to the manager and the loop goes on.
SessIncoming(s) ==
    /\ sess[s].pc = "select"
    /\ sess[s].sock = "down"
    /\ sess[s].inbox = <<>>
    /\ Notify(s, sess)
    /\ UNCHANGED <<mgr, ctx, token, connections, response, events, inputs, asked, ctl>>

\* The suspended manager_tx.send completes.
SessNotified(s) ==
    /\ sess[s].pc = "sendMgr"
    /\ MgrChanReady
    /\ rx' = MgrChanSend(Disconnect(sess[s].peer, s))
    /\ sess' = [sess EXCEPT ![s].pc = "select"]
    /\ UNCHANGED <<mgr, ctx, token, connections, response, events, inputs, asked, notes, ctl>>

\* The remote peer closes the socket, or the transport breaks: the read side
\* has ended for good.
RemoteClose(s) ==
    /\ sess[s].sock = "open"
    /\ sess' = [sess EXCEPT ![s].sock = "down"]
    /\ UNCHANGED <<mgr, ctx, token, rx, connections, response, events, inputs, asked, notes, ctl>>

\* What the remote peer may write: a message as its own send_message
\* encodes it, or something else.
RemoteFrames(s) ==
    {HandleCmd([id |-> 0, payload |-> d, sender |-> sess[s].peer]) : d \in RemoteData}
        \cup {Junk}

\* The remote peer sends one frame.
RemoteSend(s) ==
    /\ sess[s].sock = "open"
    /\ inputs + Cost.frame <= MaxInputs
    /\ inputs' = inputs + Cost.frame
    /\ \E f \in RemoteFrames(s) :
         sess' = [sess EXCEPT ![s].inbox = Append(@, f)]
    /\ UNCHANGED <<mgr, ctx, token, rx, connections, response, events, asked, notes, ctl>>

\* --------------------------------------------------------------- behaviour
MgrNext ==
    \/ MgrCancelled
    \/ MgrTeardownJoined
    \/ MgrAccept
    \/ MgrReplied
    \/ MgrDisconnect
    \/ MgrDisconnectJoined
    \/ MgrConnect
    \/ MgrSendMessage
    \/ MgrSendCompleted

SessNext(s) ==
    \/ SessCancelled(s)
    \/ SessCommand(s)
    \/ SessFrame(s)
    \/ SessIncoming(s)
    \/ SessNotified(s)

HostNext ==
    \/ HostConnect
    \/ HostDisconnect
    \/ HostSendMessage
    \/ HostShutdown
    \/ HostTakeRequest
    \/ HostReply

Next ==
    \/ MgrNext
    \/ HostNext
    \/ \E s \in Spawned : SessNext(s)
    \/ \E s \in Spawned : RemoteClose(s)
    \/ \E s \in Spawned : RemoteSend(s)

Spec == Init /\ [][Next]_vars

\* The executor runs every task that can make progress, and select! picks
\* among its ready branches at random, so no ready branch is starved.  A
\* host that holds a reply sender answers it or drops it.
FairSpec ==
    /\ Spec
    /\ WF_vars(HostReply)
    /\ WF_vars(MgrNext)
    /\ \A s \in SessionIds : WF_vars(s \in Spawned /\ SessCancelled(s))
    /\ \A s \in SessionIds : WF_vars(s \in Spawned /\ SessNext(s))

\* FairSpec with a host that keeps reading its event stream (until it shuts
\* the instance down).
CoopSpec == FairSpec /\ WF_vars(HostTakeRequest)

\* ------------------------------------------------- the controller by itself
\* A session's command and frame branches, run on a controller of any of
\* the three shapes with layers of any kind, for commands of every type
\* (one of them owned by no layer).
OtherType == "other"
Frames == {<<"f1">>, <<"f2">>}
\* Frames the transport yields to the controller.
MaxFrames == 2

CtlInit ==
    /\ mgr = "select"
    /\ ctx = NoCtx
    /\ token = FALSE
    /\ rx = <<>>
    /\ connections = <<>>
    /\ response = "none"
    /\ events = <<>>
    /\ sess = <<>>
    /\ inputs = 0
    /\ asked = <<>>
    /\ notes = 0
    /\ \E L \in Pipelines : ctl = Fresh(L)

\* C::initialize: the next layer's `Li::initialize(stream)` is called once
\* the one before has completed.
CtlInitStart ==
    /\ ~Initialized(ctl)
    /\ Len(ctl.init) % 2 = 0
    /\ LET i == Initialize(ctl.layers)[Len(ctl.init) \div 2 + 1] IN
         ctl' = [ctl EXCEPT !.init = Append(@, <<"start", i, ctl.stream>>)]
    /\ UNCHANGED <<mgr, ctx, token, rx, connections, response, events, sess, inputs, asked, notes>>

\* Li::initialize(stream).await completes.
CtlInitEnd ==
    /\ Len(ctl.init) % 2 = 1
    /\ LET i == Last(ctl.init)[2] IN
         ctl' = [ctl EXCEPT !.init = Append(@, <<"end", i>>),
                            !.stream = Append(@, <<"init", i>>)]
    /\ UNCHANGED <<mgr, ctx, token, rx, connections, response, events, sess, inputs, asked, notes>>

\* `if let Some(bytes) = layers.process_cmd(cmd) { framed.send(bytes) }`
CtlCommand ==
    /\ Initialized(ctl)
    /\ \E cmd \in CmdTypes \cup {OtherType} :
         LET r == ProcessCmd(ctl.layers, cmd) IN
         ctl' = [Idle(ctl) EXCEPT !.op = "cmd", !.cmd = cmd,
                                          !.calls = r.calls, !.bytes = r.bytes,
                                          !.written = r.bytes]
    /\ UNCHANGED <<mgr, ctx, token, rx, connections, response, events, sess, inputs, asked, notes>>

\* The remote peer's next frame arrives and the codec decodes it.
CtlYield ==
    /\ Len(ctl.yielded) < MaxFrames
    /\ \E frame \in Frames :
         ctl' = [ctl EXCEPT !.yielded = Append(@, frame), !.tin = Append(@, frame)]
    /\ UNCHANGED <<mgr, ctx, token, rx, connections, response, events, sess, inputs, asked, notes>>

\* The commands of one frame as they go to the manager: each with the
\* position of its frame.
Forwarded(cmds, k) == [j \in DOMAIN cmds |-> [k |-> k, cmd |-> cmds[j]]]

\* `for cmd in layers.process_incoming_frame(&mut frame) { manager_tx.send(cmd) }`
\* on the frame framed.next() returns.
CtlFrameNewestFirst ==
    /\ Initialized(ctl)
    /\ ctl.tin # <<>>
    /\ LET frame == Last(ctl.tin)
           r == ProcessIncomingFrame(ctl.layers, frame) IN
         ctl' = [Idle(ctl) EXCEPT !.op = "frame", !.frame = frame,
                                  !.calls = r.calls, !.left = r.frame,
                                  !.cmds = r.cmds, !.sent = r.cmds,
                                  !.tin = SubSeq(@, 1, Len(@) - 1),
                                  !.passed = Append(@, frame),
                                  !.fwd = @ \o Forwarded(r.cmds, Len(ctl.passed) + 1)]
    /\ UNCHANGED <<mgr, ctx, token, rx, connections, response, events, sess, inputs, asked, notes>>

CtlFrame ==
    /\ Initialized(ctl)
    /\ ctl.tin # <<>>
    /\ LET frame == Head(ctl.tin)
           r == ProcessIncomingFrame(ctl.layers, frame) IN
         ctl' = [Idle(ctl) EXCEPT !.op = "frame", !.frame = frame,
                                  !.calls = r.calls, !.left = r.frame,
                                  !.cmds = r.cmds, !.sent = r.cmds,
                                  !.tin = Tail(@),
                                  !.passed = Append(@, frame),
                                  !.fwd = @ \o Forwarded(r.cmds, Len(ctl.passed) + 1)]
    /\ UNCHANGED <<mgr, ctx, token, rx, connections, response, events, sess, inputs, asked, notes>>

CtlNext ==
    \/ CtlInitStart
    \/ CtlInitEnd
    \/ CtlYield
    \/ CtlCommand
    \/ CtlFrame

CtlSpec == CtlInit /\ [][CtlNext]_vars

\* ------------------------------------------------------------ event stream
\* Session s is spawned in the step that emits the s-th
\* ConnectionEstablished, so the event stream alone tells which events fall
\* in the period of which session.
EstablishedAt == {i \in DOMAIN events : events[i].type = "ConnectionEstablished"}

EstIdx(s) == CHOOSE i \in EstablishedAt : Cardinality({j \in EstablishedAt : j <= i}) = s

\* The period of s ends where the next ConnectionEstablished of its peer is.
PeriodEnd(s) ==
    LET later == {i \in EstablishedAt : i > EstIdx(s) /\ events[i].peer = sess[s].peer}
    IN  IF later = {} THEN Len(events) + 1
        ELSE CHOOSE i \in later : \A j \in later : i <= j

\* ConnectionDisconnected events of the peer of s within the period of s.
DiscCount(s) ==
    Cardinality({i \in DOMAIN events :
                   /\ EstIdx(s) < i
                   /\ i < PeriodEnd(s)
                   /\ events[i] = ConnectionDisconnected(sess[s].peer)})

\* The lifecycle events of peer a, in stream order.
Lifecycle(a) ==
    SelectSeq(events, LAMBDA e : e \in {ConnectionEstablished(a), ConnectionDisconnected(a)})

\* The manager holds the handle of s: in the table, or moved into the
\* disconnect future it is awaiting.
Held(s) == InTable(s) \/ (mgr \in {"joinDisc", "teardown"} /\ s \in ctx.sids)

\* The manager takes the command at the head of its channel in this step.
Takes(t) ==
    /\ mgr = "select"
    /\ rx # <<>>
    /\ Head(rx).type = t
    /\ rx' = Tail(rx)

\* ------------------------------------------------------------------ claims

\* C1: when the host calls disconnect(peer) once for a peer in the table,
\* the event stream gets exactly one ConnectionDisconnected{peer} for that
\* session, also when the session reports Disconnect{peer} itself.  (The
\* part a finite run refutes: never two or more.)
C1_ExactlyOneDisconnected ==
    \A s \in Spawned : asked[s] = 1 => DiscCount(s) <= 1

\* C2: every session that has terminated got exactly one
\* ConnectionDisconnected{peer}, whatever ended it (seen when the manager is
\* between commands or has returned).
C2_OneDisconnectedPerSession ==
    \A s \in Spawned :
        (mgr \in {"select", "done"} /\ sess[s].pc = "done") => DiscCount(s) = 1

\* C3: handling Disconnect{addr} for a peer in the table removes the entry
\* and cancels the session before anything is emitted, and
\* ConnectionDisconnected{addr} is emitted only once the session task has
\* terminated: when the event enters the stream the peer is not in the table
\* and its session is no longer running.
C3_DisconnectOrder ==
    /\ [](mgr = "joinDisc" =>
            /\ ctx.peer \notin DOMAIN connections
            /\ \A s \in ctx.sids : sess[s].cancelled /\ sess[s].peer = ctx.peer)
    /\ [][(Takes("Disconnect") /\ Head(rx).addr \in DOMAIN connections) =>
            /\ mgr' = "joinDisc"
            /\ ctx'.sids = {connections[Head(rx).addr]}
            /\ events' = events]_vars
    /\ [][(mgr = "joinDisc" /\ events' # events) =>
            /\ events' = Append(events, ConnectionDisconnected(ctx.peer))
            /\ ctx.peer \notin DOMAIN connections'
            /\ \A s \in ctx.sids : sess'[s].cancelled /\ sess'[s].pc = "done"]_vars

C3_Witness ==
    /\ mgr = "select"
    /\ events # <<>>
    /\ \E s \in Spawned :
         /\ sess[s].pc = "done"
         /\ ~InTable(s)
         /\ Last(events) = ConnectionDisconnected(sess[s].peer)
         /\ DiscCount(s) = 1

\* C4: peer-table conservation.  Between commands a peer is in the table
\* exactly when its last lifecycle event is ConnectionEstablished, and every
\* period of membership has one ConnectionEstablished of its own: no second
\* ConnectionEstablished{peer} follows without a ConnectionDisconnected{peer}
\* between them.
C4_PeerTableConservation ==
    \A a \in Addrs :
        LET l == Lifecycle(a) IN
        /\ mgr = "select" =>
             (a \in DOMAIN connections <=>
                (l # <<>> /\ Last(l) = ConnectionEstablished(a)))
        /\ \A i \in 1..(Len(l) - 1) :
             ~(l[i] = ConnectionEstablished(a) /\ l[i + 1] = ConnectionEstablished(a))

\* C5: between commands the peer table holds exactly the sessions whose
\* tasks are alive and not cancelled.
C5_TableIsLiveSessions ==
    mgr = "select" =>
        \A s \in Spawned : InTable(s) <=> (Running(s) /\ ~sess[s].cancelled)

\* C6: a session handle the manager no longer holds belongs to a session
\* that was cancelled and has been joined.
C6_NoHandleDroppedUncancelled ==
    \A s \in Spawned : ~Held(s) => (sess[s].cancelled /\ sess[s].pc = "done")

\* The event channel has a sender: event_tx lives in the manager task.
EventTxAlive == mgr # "done"

\* C7: once the manager task has completed (shutdown() returns), every
\* session task ever spawned has terminated and the event stream is closed.
C7_ShutdownComplete ==
    ManagerDone => (~EventTxAlive /\ \A s \in Spawned : sess[s].pc = "done")

\* C8: once shutdown() has tripped the manager's token, the manager task
\* eventually completes.
C8_ShutdownTerminates == token ~> ManagerDone

\* C9: a Connect{addr} whose TCP connect fails emits
\* ConnectionRejected{peer: addr} and leaves the peer table unchanged.
C9_ConnectFailureRejected ==
    [][(Takes("Connect") /\ sess' = sess) =>
         /\ events' = Append(events, ConnectionRejected(Head(rx).addr))
         /\ connections' = connections]_vars

\* C10: a Connect{addr} whose TCP connect succeeds spawns one session,
\* inserts it under addr and emits ConnectionEstablished{peer: addr}; and
\* whenever ConnectionEstablished{peer} is emitted, the table holds an entry
\* for peer, which is the session just spawned.
C10_ConnectEstablishes ==
    /\ [][(Takes("Connect") /\ sess' # sess) =>
            /\ sess' = Append(sess, NewSession(Head(rx).addr, "connect"))
            /\ Head(rx).addr \in DOMAIN connections'
            /\ connections'[Head(rx).addr] = Len(sess')
            /\ \A a \in DOMAIN connections \ {Head(rx).addr} :
                   a \in DOMAIN connections' /\ connections'[a] = connections[a]
            /\ events' = Append(events, ConnectionEstablished(Head(rx).addr))]_vars
    /\ [][(events' # events /\ Last(events').type = "ConnectionEstablished") =>
            /\ Last(events').peer \in DOMAIN connections'
            /\ connections'[Last(events').peer] = Len(sess')
            /\ Len(sess') = Len(sess) + 1
            /\ sess'[Len(sess')] = NewSession(Last(events').peer, sess'[Len(sess')].origin)]_vars

C10_Witness ==
    /\ events # <<>>
    /\ \E s \in Spawned :
         /\ sess[s].origin = "connect"
         /\ s = Len(sess)
         /\ InTable(s)
         /\ connections[sess[s].peer] = s
         /\ Last(events) = ConnectionEstablished(sess[s].peer)

\* The manager resumes from the host's answer to ConnectionRequested.
Replies(r) ==
    /\ mgr = "awaitReply"
    /\ response = r
    /\ mgr' = "select"

\* C11: an inbound accept emits ConnectionRequested{peer} and spawns
\* nothing; while the manager waits for the answer no session is spawned and
\* nothing is emitted; only the answer true spawns a session, inserts it
\* under peer and emits ConnectionEstablished{peer}: every
\* ConnectionEstablished of an accepted session directly follows the
\* ConnectionRequested of the same peer, which was answered true.
C11_AcceptNeedsTrue ==
    /\ [][(mgr = "select" /\ mgr' = "awaitReply") =>
            /\ events' = Append(events, ConnectionRequested(ctx'.peer))
            /\ response' = "unread"
            /\ sess' = sess
            /\ connections' = connections]_vars
    /\ [][(mgr = "awaitReply" /\ (Len(sess') # Len(sess) \/ events' # events)) =>
            /\ response = "true"
            /\ Last(events) = ConnectionRequested(ctx.peer)
            /\ sess' = Append(sess, NewSession(ctx.peer, "accept"))
            /\ ctx.peer \in DOMAIN connections'
            /\ connections'[ctx.peer] = Len(sess')
            /\ events' = Append(events, ConnectionEstablished(ctx.peer))]_vars
    /\ [][Replies("true") => Len(sess') = Len(sess) + 1]_vars
    /\ [](\A s \in Spawned :
            sess[s].origin = "accept" =>
                /\ EstIdx(s) > 1
                /\ events[EstIdx(s) - 1] = ConnectionRequested(sess[s].peer))

C11_Witness ==
    /\ Len(events) >= 2
    /\ \E s \in Spawned :
         /\ sess[s].origin = "accept"
         /\ InTable(s)
         /\ Last(events) = ConnectionEstablished(sess[s].peer)
         /\ events[Len(events) - 1] = ConnectionRequested(sess[s].peer)

\* C12: when the host answers false to ConnectionRequested{peer}, or drops
\* the reply sender, no session is spawned, the peer table is unchanged and
\* no event is emitted.
C12_RejectedAcceptSilent ==
    [][(Replies("false") \/ Replies("dropped")) =>
         /\ sess' = sess
         /\ connections' = connections
         /\ events' = events]_vars

C12_Witness ==
    /\ mgr = "select"
    /\ response = "none"
    /\ events # <<>>
    /\ Last(events).type = "ConnectionRequested"
    /\ Last(events).peer \notin DOMAIN connections
    /\ \A s \in Spawned : sess[s].peer # Last(events).peer

\* C13: a SendMessage{message_id, addr, data} taken by the manager produces
\* one event.  With addr in the peer table, one transmit command is put on
\* that session's channel (at once, or after waiting for room, with nothing
\* emitted meanwhile) and MessageSent{addr, message_id} is emitted; with no
\* entry, MessageFailed{addr, message_id} is emitted and no session's channel
\* changes.  The peer table is unchanged either way.
C13_SendMessageOneEvent ==
    /\ [][Takes("SendMessage") =>
            LET c == Head(rx)
                msg == TransmitCmd(c.message_id, c.data)
            IN  /\ connections' = connections
                /\ IF c.addr \in DOMAIN connections
                     THEN LET s == connections[c.addr] IN
                          \/ /\ mgr' = "select"
                             /\ sess' = [sess EXCEPT ![s].rx = Append(@, msg)]
                             /\ events' = Append(events, MessageSent(c.addr, c.message_id))
                          \/ /\ mgr' = "sendCmd"
                             /\ ctx' = [peer |-> c.addr, sids |-> {s}, cmd |-> msg]
                             /\ sess' = sess
                             /\ events' = events
                     ELSE /\ mgr' = "select"
                          /\ sess' = sess
                          /\ events' = Append(events, MessageFailed(c.addr, c.message_id))]_vars
    /\ [][(mgr = "sendCmd" /\ (events' # events \/ mgr' # mgr)) =>
            /\ mgr' = "select"
            /\ connections' = connections
            /\ ctx.peer \in DOMAIN connections
            /\ ctx.sids = {connections[ctx.peer]}
            /\ sess' = [sess EXCEPT ![connections[ctx.peer]].rx = Append(@, ctx.cmd)]
            /\ events' = Append(events, MessageSent(ctx.peer, ctx.cmd.id))]_vars

C13_Witness ==
    /\ mgr = "select"
    /\ \E i \in DOMAIN events : events[i].type = "MessageFailed"
    /\ \E s \in Spawned, d \in Data :
         /\ InTable(s)
         /\ Last(events) = MessageSent(sess[s].peer, 0)
         /\ sess[s].rx = <<TransmitCmd(0, d)>>

\* The message events of the stream, in order.
MessageEvents == SelectSeq(events, LAMBDA e : e.type \in {"MessageSent", "MessageFailed"})

\* C14: message identifiers are unique and increasing: the first
\* send_message carries message_id 0 and every later one a greater id, so no
\* two MessageSent/MessageFailed events carry the same message_id.
C14_MessageIdsUnique ==
    /\ MessageEvents # <<>> => MessageEvents[1].message_id = 0
    /\ \A i, j \in DOMAIN MessageEvents :
         i < j => MessageEvents[i].message_id < MessageEvents[j].message_id

\* The session still serves its peer: in the table, running, not cancelled.
Survives(s) == InTable(s) /\ Running(s) /\ ~sess[s].cancelled

\* The messages session s has read from its transport, in order.
ReadMessages(s) ==
    LET good == SelectSeq(sess[s].read, LAMBDA f : FromBytes(f).ok)
    IN  [i \in DOMAIN good |-> FromBytes(good[i]).msg]

\* The payloads of the MessageReceived events of peer a, in stream order.
ReceivedPayloads(a) ==
    LET got == SelectSeq(events, LAMBDA e : e.type = "MessageReceived" /\ e.peer = a)
    IN  [i \in DOMAIN got |-> got[i].payload]

\* Nothing is on its way from session s to the event stream.
Settled(s) == mgr = "select" /\ rx = <<>> /\ sess[s].pc = "select"

\* C15: framing round trip.  A payload p sent by the peer's send_message
\* reaches the wire as the encoding of Message{0, p, sender}; once a
\* surviving session has read that frame and nothing is in flight, the event
\* stream holds a MessageReceived of that peer whose payload is p.
C15_FramingRoundTrip ==
    \A s \in Spawned :
        (Survives(s) /\ Settled(s)) =>
            \A i \in DOMAIN ReadMessages(s) :
                \E e \in Range(events) :
                    /\ e.type = "MessageReceived"
                    /\ e.peer = sess[s].peer
                    /\ e.payload = ReadMessages(s)[i].payload

\* C16: ordering within a session.  When the peer sent p1 before p2 and the
\* session has read both, the MessageReceived events of that peer carry p1
\* before p2: the payloads read are the payloads received, in the same
\* order.
C16_ReceiveOrder ==
    \A s \in Spawned :
        (Survives(s) /\ Settled(s) /\ Len(ReadMessages(s)) >= 2
            /\ \A o \in Spawned \ {s} : sess[o].peer # sess[s].peer) =>
            ReceivedPayloads(sess[s].peer)
                = [i \in DOMAIN ReadMessages(s) |-> ReadMessages(s)[i].payload]

\* An event of the stream between positions i and k (exclusive) equals e.
Between(i, k, e) == \E j \in DOMAIN events : i < j /\ j < k /\ events[j] = e

\* C20: per-peer event ordering.  Every MessageSent{peer} or
\* MessageReceived{peer} comes after a ConnectionEstablished{peer} with no
\* ConnectionDisconnected{peer} between the two; and after a
\* ConnectionDisconnected{peer} no MessageSent, MessageFailed,
\* MessageReceived or ConnectionDisconnected of that peer comes before a new
\* ConnectionEstablished{peer}.
C20_PerPeerEventOrder ==
    /\ \A k \in DOMAIN events :
         events[k].type \in {"MessageSent", "MessageReceived"} =>
            \E i \in 1..(k - 1) :
                /\ events[i] = ConnectionEstablished(events[k].peer)
                /\ ~Between(i, k, ConnectionDisconnected(events[k].peer))
    /\ \A i, k \in DOMAIN events :
         (/\ i < k
          /\ events[i].type = "ConnectionDisconnected"
          /\ events[k].peer = events[i].peer
          /\ events[k].type \in {"MessageSent", "MessageFailed", "MessageReceived",
                                   "ConnectionDisconnected"}) =>
            Between(i, k, ConnectionEstablished(events[i].peer))

\* The layers of the controller have pairwise distinct command types.
Distinct(L) == \A i, j \in DOMAIN L : i # j => L[i].type # L[j].type

\* The layers whose command type is that of the command just processed.
Owners == {i \in DOMAIN ctl.layers : ctl.layers[i].type = ctl.cmd}

\* The calls of method m in the log of the last call, in order.
CallsOf(m) == SelectSeq(ctl.calls, LAMBDA c : c[1] = m)

\* The marks of layers hi, hi - 1, ..., lo + 1 in that order.
Marks(m, hi, lo) == [k \in 1..(hi - lo) |-> <<m, hi - k + 1>>]

\* C17: layer dispatch uniqueness.  With pairwise distinct command types,
\* process_cmd(c) calls handle_cmd on the one layer whose command type is
\* c's and on no other; when no layer owns the type, no method of any layer
\* is called, nothing is returned and the session writes nothing.
C17_DispatchUnique ==
    (ctl.op = "cmd" /\ Distinct(ctl.layers)) =>
        IF Owners = {}
          THEN ctl.calls = <<>> /\ ctl.bytes = <<>> /\ ctl.written = <<>>
          ELSE \E i \in Owners :
                  /\ Owners = {i}
                  /\ CallsOf("handle_cmd") = <<Called("handle_cmd", i)>>

C17_Witness ==
    /\ ctl.op = "cmd"
    /\ Len(ctl.layers) = 3
    /\ Distinct(ctl.layers)
    /\ Owners = {2}
    /\ CallsOf("handle_cmd") = <<Called("handle_cmd", 2)>>

\* C18: outbound wrap order.  When the command's owner Li produces bytes,
\* handle_outgoing_frame is called once on each of L(i-1), ..., L1, in that
\* order, and on no layer of index i or more: the bytes returned for
\* transmission went through Li's handle_cmd, then L(i-1), ..., then L1.
C18_OutboundWrapOrder ==
    (ctl.op = "cmd" /\ ctl.bytes # <<>>) =>
        /\ ctl.calls # <<>>
        /\ LET i == ctl.calls[1][2] IN
            /\ ctl.calls[1] = Called("handle_cmd", i)
            /\ ctl.layers[i].type = ctl.cmd
            /\ Tail(ctl.calls) = Marks("handle_outgoing_frame", i - 1, 0)
            /\ ctl.bytes[1] = << <<"cmd", i>> >> \o Marks("out", i - 1, 0)
            /\ ctl.written = ctl.bytes

C18_Witness ==
    /\ ctl.op = "cmd"
    /\ Len(ctl.layers) = 3
    /\ ctl.calls = <<Called("handle_cmd", 3), Called("handle_outgoing_frame", 2),
                     Called("handle_outgoing_frame", 1)>>
    /\ ctl.bytes = << << <<"cmd", 3>>, <<"out", 2>>, <<"out", 1>> >> >>

\* C19: inbound unwrap order.  process_incoming_frame calls
\* handle_incoming_frame once on every layer, from the last layer down to
\* L1 (L3, L2, L1), each on the buffer as the one before left it, and
\* returns what the layers reported in that same order, at most one command
\* per layer; the session sends them on in that order.
C19_InboundUnwrapOrder ==
    ctl.op = "frame" =>
        LET n == Len(ctl.layers) IN
        /\ ctl.calls = Marks("handle_incoming_frame", n, 0)
        /\ ctl.left = ctl.frame \o Marks("in", n, 0)
        /\ Len(ctl.cmds) <= n
        /\ {ctl.cmds[k].layer : k \in DOMAIN ctl.cmds}
              = {i \in 1..n : ctl.layers[i].reports}
        /\ \A k \in DOMAIN ctl.cmds :
              /\ ctl.cmds[k].saw = ctl.frame \o Marks("in", n, ctl.cmds[k].layer)
              /\ \A j \in DOMAIN ctl.cmds : k < j => ctl.cmds[k].layer > ctl.cmds[j].layer
        /\ ctl.sent = ctl.cmds

C19_Witness ==
    /\ ctl.op = "frame"
    /\ Len(ctl.layers) = 3
    /\ Len(ctl.cmds) = 3
    /\ ctl.cmds[1].layer = 3
    /\ ctl.cmds[3].saw = ctl.frame \o << <<"in", 3>>, <<"in", 2>> >>

\* The stream holds a ConnectionDisconnected of the peer of s after the
\* ConnectionEstablished of s.
Surfaced(s) ==
    \E i \in DOMAIN events :
        i > EstIdx(s) /\ events[i] = ConnectionDisconnected(sess[s].peer)

\* C21: remote closure is eventually surfaced.  When the peer of a session
\* in the table has closed the socket, then (the tasks scheduled fairly, the
\* host reading its events and not shutting down) the event stream
\* eventually holds a ConnectionDisconnected{peer} for that session, which
\* the manager emits after removing the peer from the table.
C21_RemoteCloseSurfaced ==
    \A s \in SessionIds :
        (s \in Spawned /\ InTable(s) /\ sess[s].sock = "down")
            ~> (token \/ (s \in Spawned /\ ~InTable(s) /\ Surfaced(s)))

\* The manager task is suspended on the host: at `tx.await`, with the
\* ConnectionRequested event unread or its reply sender unanswered.
WaitsOnHost == mgr = "awaitReply" /\ response \in {"unread", "held"}

\* C22: a stalled host cannot block the manager: the manager is never
\* suspended on the host while a command, a session's notification or the
\* cancellation is waiting to be handled.
C22_HostCannotBlockManager ==
    ~(WaitsOnHost /\ (rx # <<>> \/ token))

\* Session s reports an I/O failure in this step: its Disconnect is queued
\* on the manager's channel, or the session is suspended sending it.
Reports(s) ==
    /\ sess[s].pc = "select"
    /\ \/ rx' = Append(rx, Disconnect(sess[s].peer, s))
       \/ sess'[s].pc = "sendMgr"

C24_CancelHonouredAtNextPoll ==
    [][\A s \in Spawned :
         (sess[s].pc = "select" /\ sess[s].cancelled) =>
            /\ sess'[s].pc \in {"select", "done"}
            /\ sess'[s].wire = sess[s].wire
            /\ sess'[s].read = sess[s].read
            /\ sess'[s].told = sess[s].told
            /\ sess'[s].pc = "select" =>
                  /\ Len(sess'[s].rx) >= Len(sess[s].rx)
                  /\ Len(sess'[s].inbox) >= Len(sess[s].inbox)]_vars

\* C25: backpressure.  A session's command channel never holds more than
\* its capacity; while it is full a SendMessage being forwarded to it stays
\* suspended: the manager emits nothing, takes no command and completes the
\* forward only in a step that finds room in the channel.
C25_Backpressure ==
    /\ [](\A s \in Spawned : Len(sess[s].rx) <= SessChanCap)
    /\ [][(mgr = "select" /\ mgr' = "sendCmd") =>
            /\ events' = events
            /\ \E s \in Spawned :
                 /\ ctx'.sids = {s}
                 /\ Len(sess[s].rx) = SessChanCap
                 /\ sess' = sess]_vars
    /\ [][(mgr = "sendCmd" /\ \E s \in ctx.sids : Len(sess[s].rx) = SessChanCap) =>
            /\ mgr' = mgr
            /\ ctx' = ctx
            /\ events' = events
            /\ connections' = connections
            /\ Len(rx') >= Len(rx)]_vars

C25_Witness ==
    /\ mgr = "sendCmd"
    /\ \E s \in ctx.sids :
         /\ Len(sess[s].rx) = SessChanCap - 1
         /\ sess[s].wire # <<>>
    /\ events # <<>>
    /\ Last(events).type = "MessageSent"

\* The number of commands session s holds or has written, and the number of
\* MessageSent events of peer a.
Handled(s) == Len(sess[s].wire) + Len(sess[s].rx)
SentCount(a) == Cardinality({i \in DOMAIN events : events[i].type = "MessageSent"
                                                    /\ events[i].peer = a})

\* C26: within one session the commands are passed to process_cmd in the
\* order the manager sent them, none duplicated, none reordered, and the
\* frames are written in that order: a session's channel grows at its tail
\* only and shrinks at its head only, the frame written is the encoding of
\* the command taken from the head, and a peer's sessions never hold or
\* write more commands than were handed off for that peer.
C26_CommandOrder ==
    /\ [][\A s \in Spawned :
            LET q == sess[s].rx
                p == sess'[s].rx
                w == sess[s].wire
                v == sess'[s].wire
            IN  \/ p = q /\ v = w
                \/ p # <<>> /\ SubSeq(p, 1, Len(p) - 1) = q /\ v = w
                \/ /\ q # <<>>
                   /\ p = Tail(q)
                   /\ \/ v = Append(w, HandleCmd(Head(q)))
                      \/ v = w /\ sess[s].sock = "down"
                \/ sess'[s].pc = "done" /\ p = <<>> /\ v = w]_vars
    /\ [](\A a \in Addrs :
            Cardinality({x \in Spawned \X (1..Len(events)) :
                            sess[x[1]].peer = a /\ x[2] <= Handled(x[1])})
                <= SentCount(a) + (IF mgr = "sendCmd" /\ ctx.peer = a THEN 1 ELSE 0))

C26_Witness ==
    \E s \in Spawned :
        /\ sess[s].wire = <<HandleCmd(TransmitCmd(0, "p1")), HandleCmd(TransmitCmd(0, "p2"))>>
        /\ sess[s].rx = <<>>
        /\ SentCount(sess[s].peer) = 2

C28_MessageSentAtHandOff ==
    [][(events' # events /\ Last(events').type = "MessageSent") =>
         LET e == Last(events') IN
         /\ events' = Append(events, e)
         /\ e.peer \in DOMAIN connections
         /\ LET s == connections[e.peer] IN
            /\ sess'[s].rx # <<>>
            /\ Last(sess'[s].rx).id = e.message_id
            /\ sess' = [sess EXCEPT ![s].rx = Append(@, Last(sess'[s].rx))]
         /\ \/ Takes("SendMessage") /\ Head(rx).addr = e.peer
            \/ mgr = "sendCmd" /\ ctx.peer = e.peer /\ mgr' = "select"]_vars

C28_Witness ==
    /\ events # <<>>
    /\ Last(events).type = "MessageSent"
    /\ Last(events).peer \in DOMAIN connections
    /\ LET s == connections[Last(events).peer] IN
         /\ sess[s].wire = <<>>
         /\ Len(sess[s].rx) = 1

\* C29: a session never leaves its loop because of an I/O failure: a task
\* ends only from its select and only with its token tripped; on a failed
\* write or an ended or broken read it sends Disconnect for its own peer to
\* the manager and stays in the loop.
C29_OnlyCancellationEndsSession ==
    /\ [][\A s \in Spawned :
            (sess[s].pc # "done" /\ sess'[s].pc = "done") =>
                sess[s].pc = "select" /\ sess[s].cancelled]_vars
    /\ [][\A s \in Spawned :
            (sess[s].pc = "select" /\ sess[s].sock = "down" /\ sess'[s].pc # "done"
                /\ (sess'[s].rx # sess[s].rx \/ sess'[s].told # sess[s].told
                       \/ sess'[s].pc # sess[s].pc)
                /\ sess'[s].wire = sess[s].wire /\ Len(sess'[s].rx) <= Len(sess[s].rx)) =>
                /\ sess'[s].told
                /\ \/ rx' = Append(rx, Disconnect(sess[s].peer, s))
                   \/ sess'[s].pc = "sendMgr" /\ rx' = rx
                   \/ ManagerDone /\ rx' = rx]_vars
    /\ [](\A i \in DOMAIN rx :
            rx[i].from # Host =>
                /\ rx[i].from \in Spawned
                /\ rx[i] = Disconnect(sess[rx[i].from].peer, rx[i].from))

C29_Witness ==
    \E s \in Spawned :
        /\ sess[s].sock = "down"
        /\ sess[s].told
        /\ sess[s].pc = "select"
        /\ ~sess[s].cancelled
        /\ notes >= 1

\* C30: controller initialization is sequential and in pipeline order: Li's
\* initialization starts only after that of L(i-1) has completed, on the
\* transport as L1, ..., L(i-1) left it, and no command or inbound frame is
\* handled before the last layer has been initialized.
C30_InitializeInOrder ==
    /\ \A k \in DOMAIN ctl.init :
         ctl.init[k] = IF k % 2 = 1
                         THEN <<"start", (k + 1) \div 2,
                                [j \in 1..((k - 1) \div 2) |-> <<"init", j>>]>>
                         ELSE <<"end", k \div 2>>
    /\ Len(ctl.init) <= 2 * Len(ctl.layers)
    /\ ctl.op # "none" => Len(ctl.init) = 2 * Len(ctl.layers)

C30_Witness ==
    /\ Len(ctl.layers) = 3
    /\ ctl.op = "frame"
    /\ Len(ctl.init) = 6
    /\ ctl.init[5] = <<"start", 3, << <<"init", 1>>, <<"init", 2>> >> >>
    /\ ctl.stream = << <<"init", 1>>, <<"init", 2>>, <<"init", 3>> >>

\* The commands sent to the manager for the k-th frame, in the order sent.
ForwardedFor(k) == SelectSeq(ctl.fwd, LAMBDA f : f.k = k)

\* C31: within one session, inbound frames are passed to
\* process_incoming_frame in the order the transport yielded them, and the
\* commands produced for frame k are all sent to the manager before any
\* produced for frame k+1, in the order the controller returned them.
C31_InboundFrameOrder ==
    /\ Len(ctl.passed) <= Len(ctl.yielded)
    /\ ctl.passed = SubSeq(ctl.yielded, 1, Len(ctl.passed))
    /\ \A i, j \in DOMAIN ctl.fwd : i < j => ctl.fwd[i].k <= ctl.fwd[j].k
    /\ \A k \in DOMAIN ctl.passed :
         ForwardedFor(k) = Forwarded(ProcessIncomingFrame(ctl.layers, ctl.passed[k]).cmds, k)
    /\ \A i \in DOMAIN ctl.fwd : ctl.fwd[i].k \in DOMAIN ctl.passed

C31_Witness ==
    /\ Len(ctl.layers) = 3
    /\ Len(ctl.passed) = 2
    /\ ctl.passed[1] # ctl.passed[2]
    /\ Len(ctl.fwd) = 6
    /\ ctl.fwd[3] = [k |-> 1, cmd |-> [layer |-> 1, saw |-> ctl.passed[1] \o Marks("in", 3, 1)]]
    /\ ctl.fwd[4] = [k |-> 2, cmd |-> [layer |-> 3, saw |-> ctl.passed[2]]]

\* C32: on the inbound path the controller threads a received frame from
\* the outermost layer to the innermost: for (L1, L2, L3),
\* handle_incoming_frame of L1 runs before that of L2, which runs before
\* that of L3.
C32_InboundOutermostFirst ==
    (ctl.op = "frame" /\ Len(ctl.layers) = 3) =>
        ctl.calls = <<Called("handle_incoming_frame", 1),
                      Called("handle_incoming_frame", 2),
                      Called("handle_incoming_frame", 3)>>

\* The manager is suspended on session s: sending into its full command
\* channel, or awaiting its join handle.
MgrBlockedOn(s) ==
    /\ s \in ctx.sids
    /\ \/ mgr = "sendCmd" /\ ~SessChanReady(s)
       \/ mgr \in {"joinDisc", "teardown"} /\ ~JoinReady(s)

\* Session s is suspended sending to the manager's full command channel.
SessBlockedOnMgr(s) == sess[s].pc = "sendMgr" /\ ~MgrChanReady

\* C33: no circular wait between the manager and a session: the manager is
\* never blocked on a session that is itself blocked sending to the
\* manager's full command channel.
C33_NoCircularWait ==
    \A s \in Spawned : ~(MgrBlockedOn(s) /\ SessBlockedOnMgr(s))

\* C34: a Disconnect notification sent by a session only ever removes and
\* cancels that same session, never a newer session inserted in the table
\* under the same address.
C34_NotificationRemovesItsSender ==
    [][(/\ mgr = "select"
        /\ rx # <<>>
        /\ rx' = Tail(rx)
        /\ Head(rx).type = "Disconnect"
        /\ Head(rx).from # Host)
          => \A s \in Spawned :
                (InTable(s) /\ (~InTable(s)' \/ sess'[s].cancelled))
                    => s = Head(rx).from]_vars

\* The Disconnect commands of session s waiting on the manager's channel.
QueuedBy(s) == {i \in DOMAIN rx : rx[i] = Disconnect(sess[s].peer, s)}

\* C35: a session reports its own termination at most once: one session
\* task enqueues at most one Disconnect for its peer on the manager's
\* command channel, whatever its transport does.
C35_NotifiesAtMostOnce ==
    \A s \in Spawned : Cardinality(QueuedBy(s)) <= 1

\* C36: the manager never enqueues a command on a session's command channel
\* after that session's token has been tripped: a session in the table is
\* not cancelled, the session a SendMessage is being forwarded to is not
\* cancelled, and no step appends to the channel of a cancelled session.
C36_NoCommandAfterCancel ==
    /\ [](\A s \in Spawned :
            /\ InTable(s) => ~sess[s].cancelled
            /\ (mgr = "sendCmd" /\ s \in ctx.sids) => ~sess[s].cancelled)
    /\ [][\A s \in Spawned :
            Len(sess'[s].rx) > Len(sess[s].rx) => ~sess[s].cancelled /\ InTable(s)]_vars

C36_Witness ==
    \E s \in Spawned :
        /\ sess[s].cancelled
        /\ Len(events) >= 4
        /\ MessageSent(sess[s].peer, 0) \in Range(events)
        /\ events[Len(events) - 1] = ConnectionDisconnected(sess[s].peer)
        /\ Last(events).type = "MessageFailed"
        /\ Last(events).peer = sess[s].peer

\* The layers of controller c whose command type is that of its command,
\* and the one of them process_cmd hands the command to.
OwnersIn(c) == {i \in DOMAIN c.layers : c.layers[i].type = c.cmd}
FirstOwner(c) == CHOOSE i \in OwnersIn(c) : \A j \in OwnersIn(c) : i <= j

\* C37: when the owning layer's handle_cmd returns nothing, process_cmd
\* calls handle_outgoing_frame on no layer and returns nothing, and the
\* session writes nothing to the transport and sends nothing to the manager
\* for that command.
C37_NothingFromNone ==
    [][(/\ ctl'.op = "cmd"
        /\ OwnersIn(ctl') # {}
        /\ ~ctl'.layers[FirstOwner(ctl')].yields)
          => /\ ctl'.calls = <<Called("handle_cmd", FirstOwner(ctl'))>>
             /\ ctl'.bytes = <<>>
             /\ ctl'.written = <<>>
             /\ ctl'.fwd = ctl.fwd
             /\ ctl'.sent = <<>>]_vars

C37_Witness ==
    /\ ctl.op = "cmd"
    /\ Len(ctl.layers) = 3
    /\ OwnersIn(ctl) = {3}
    /\ ~ctl.layers[3].yields
    /\ ctl.layers[1].yields /\ ctl.layers[2].yields
    /\ ctl.calls = <<Called("handle_cmd", 3)>>
    /\ ctl.written = <<>>
    /\ ctl.fwd # <<>>

\* C38: when two layers of a controller have the same command type,
\* process_cmd still calls handle_cmd on exactly one layer, the one with
\* the lowest index, and a later layer with that type never receives the
\* command.
C38_OverlapFirstWins ==
    (ctl.op = "cmd" /\ Cardinality(OwnersIn(ctl)) >= 2) =>
        /\ CallsOf("handle_cmd") = <<Called("handle_cmd", FirstOwner(ctl))>>
        /\ \A i \in OwnersIn(ctl) \ {FirstOwner(ctl)} :
              \A k \in DOMAIN ctl.calls : ctl.calls[k] # Called("handle_cmd", i)
        /\ ctl.bytes = IF ctl.layers[FirstOwner(ctl)].yields
                         THEN << << <<"cmd", FirstOwner(ctl)>> >>
                                 \o Marks("out", FirstOwner(ctl) - 1, 0) >>
                         ELSE <<>>

C38_Witness ==
    /\ ctl.op = "cmd"
    /\ Len(ctl.layers) = 3
    /\ OwnersIn(ctl) = {2, 3}
    /\ ctl.layers[3].yields
    /\ ctl.calls = <<Called("handle_cmd", 2), Called("handle_outgoing_frame", 1)>>

====
